---- MODULE Spec2Model ----
(***************************************************************************)
(* Model of the onboarding query service: the three handle_query variants  *)
(* (onb.py, onb_corporate.py, onb_corporate2.py), their field extractors,  *)
(* record lookups and response renderers.                                  *)
(*                                                                         *)
(* Python str values are TLA+ strings; Len, SubSeq and \o act on them as   *)
(* on sequences of characters.  A Python dict is a TLA+ record whose       *)
(* DOMAIN is the set of keys present.                                      *)
(***************************************************************************)
EXTENDS Integers, Sequences, FiniteSets, TLC

VARIABLES variant, store, message, pc, user_text, intent, wcis_id, company,
          doc, response, trace, caught, swallowed, handler, nresp

vars == <<variant, store, message, pc, user_text, intent, wcis_id, company,
          doc, response, trace, caught, swallowed, handler, nresp>>

(***************************************************************************)
(* Values                                                                  *)
(***************************************************************************)
\* Python None (also str(None) is "None": see Fmt).
None == "<None>"

\* A JSON value that is not a string (a number) stored where a string is
\* expected: calling .lower() on it raises AttributeError.
NonStr == "<NonStr>"

\* No document: find_one's None, next(..., None), doc = None.
NoDoc == [nodoc |-> TRUE]

Truthy(x) == x # None /\ x # ""

\* an empty JSON object stored as a record of onb_corporate.py's client_data
EmptyDoc == <<>>

\* not doc: no document, or a dict without any key
Falsy(d) == d = NoDoc \/ DOMAIN d = {}

\* f"{x}" formatting of a value.
Fmt(x) == IF x = None THEN "None" ELSE IF x = NonStr THEN "42" ELSE x

\* dict.get(key, default)
Get(d, key, default) == IF key \in DOMAIN d THEN d[key] ELSE default

Min(S) == CHOOSE x \in S : \A y \in S : x <= y
Max(S) == CHOOSE x \in S : \A y \in S : x >= y

(***************************************************************************)
(* str methods                                                             *)
(***************************************************************************)
UpperLetters ==
    {"A", "B", "C", "D", "E", "F", "G", "H", "I", "J", "K", "L", "M", "N",
     "O", "P", "Q", "R", "S", "T", "U", "V", "W", "X", "Y", "Z"}
LowerLetters ==
    {"a", "b", "c", "d", "e", "f", "g", "h", "i", "j", "k", "l", "m", "n",
     "o", "p", "q", "r", "s", "t", "u", "v", "w", "x", "y", "z"}
Digits == {"0", "1", "2", "3", "4", "5", "6", "7", "8", "9"}

\* the lower-case form of each upper-case letter
LowerMap ==
    [A |-> "a", B |-> "b", C |-> "c", D |-> "d", E |-> "e", F |-> "f", G
     |-> "g", H |-> "h", I |-> "i", J |-> "j", K |-> "k", L |-> "l", M |->
     "m", N |-> "n", O |-> "o", P |-> "p", Q |-> "q", R |-> "r", S |-> "s",
     T |-> "t", U |-> "u", V |-> "v", W |-> "w", X |-> "x", Y |-> "y", Z
     |-> "z"]

CharAt(s, i) == SubSeq(s, i, i)

LowerChar(c) == IF c \in DOMAIN LowerMap THEN LowerMap[c] ELSE c

\* str.lower()
RECURSIVE Lower(_)
Lower(s) == IF s = "" THEN "" ELSE LowerChar(CharAt(s, 1)) \o Lower(SubSeq(s, 2, Len(s)))

\* the whitespace str.strip() removes
IsSpace(c) == c \in {" ", "\t", "\n", "\r"}

\* str.strip()
RECURSIVE Strip(_)
Strip(s) ==
    IF s = "" THEN ""
    ELSE IF IsSpace(CharAt(s, 1)) THEN Strip(SubSeq(s, 2, Len(s)))
    ELSE IF IsSpace(CharAt(s, Len(s))) THEN Strip(SubSeq(s, 1, Len(s) - 1))
    ELSE s

\* Python's  sub in text
Contains(text, sub) ==
    \E i \in 1..(Len(text) - Len(sub) + 1) : SubSeq(text, i, i + Len(sub) - 1) = sub

(***************************************************************************)
(* re.search(r"\b\d{6,}\b", text)                                          *)
(***************************************************************************)
MinDigits == 6

IsDigit(c) == c \in Digits
IsWord(c) == IsDigit(c) \/ c \in UpperLetters \/ c \in LowerLetters \/ c = "_"

IsWordAt(text, i) == i >= 1 /\ i <= Len(text) /\ IsWord(CharAt(text, i))

\* \b between the characters p and p + 1 (p = 0: start, p = Len: end)
WordBoundary(text, p) == IsWordAt(text, p) # IsWordAt(text, p + 1)

\* the number of consecutive digits from index i on: what a greedy \d* consumes
RECURSIVE DigitRun(_, _)
DigitRun(text, i) ==
    IF i <= Len(text) /\ IsDigit(CharAt(text, i)) THEN 1 + DigitRun(text, i + 1) ELSE 0

\* MatchLenAt for the pattern \d{6,} without its word boundaries
MatchLenAtUnbounded(text, i) ==
    LET n == DigitRun(text, i) IN IF n >= MinDigits THEN n ELSE 0

\* the length of the match of \b\d{6,}\b anchored at index i, 0 when there is
\* none: \b, then the greedy \d{6,} gives characters back until the closing
\* \b matches.
MatchLenAt(text, i) ==
    IF ~WordBoundary(text, i - 1) THEN 0
    ELSE LET n == DigitRun(text, i)
             ks == {k \in MinDigits..n : WordBoundary(text, i + k - 1)}
         IN IF ks = {} THEN 0 ELSE Max(ks)

\* re.search: the match at the leftmost start index that has one;
\* match.group(0) if match else None
ReSearch(text) ==
    LET starts == {i \in 1..Len(text) : MatchLenAt(text, i) > 0}
    IN IF starts = {} THEN None
       ELSE LET i == Min(starts) IN SubSeq(text, i, i + MatchLenAt(text, i) - 1)

extract_wcis_id(text) == ReSearch(text)

(***************************************************************************)
(* The variants, their field names and fixed strings                       *)
(***************************************************************************)
Variants == {"onb", "onb_corporate", "onb_corporate2"}

\* the entity-name and identifier keys of a stored record
NameField(v) == IF v = "onb_corporate2" THEN "legalEntityName" ELSE "company"
IdField(v) == IF v = "onb_corporate2" THEN "wcisId" ELSE "wcis_id"

NotFoundMsg(v) ==
    IF v = "onb_corporate2"
    THEN "Hmm, I couldn't find any matching record. Maybe double-check the name or ID?"
    ELSE "Sorry, no record found."

Apology(v) ==
    IF v = "onb_corporate2"
    THEN "Oops, something went wrong on my side. Mind trying again in a bit?"
    ELSE "An error occurred while processing your request. Please try again later."

NoHandlerMsg(v) ==
    IF v = "onb_corporate2"
    THEN "I'm not quite sure what you're asking. Want to rephrase it a bit?"
    ELSE "Sorry, I couldn't understand your request."

\* the keys of intent_handlers
HandlerNames(v) ==
    IF v = "onb_corporate2"
    THEN {"current_milestone", "milestone_status", "accounts_milestone_status",
          "internal_contacts", "external_contacts", "who_is_customer"}
    ELSE {"onboarding_status", "pending_steps", "step_status", "who_is_customer"}

\* intent_labels: the intents of intent_config.json, which may name an intent
\* that intent_handlers has no entry for ("other").
IntentLabels(v) == HandlerNames(v) \cup {"other"}

\* intent_config.json of onb.py: the collection each intent's records live in
\* (collection 1 or 2 of the store); the other variants read one list.
CollOf(i) == IF i \in {"who_is_customer", "other"} THEN 2 ELSE 1

(***************************************************************************)
(* Entity extraction                                                       *)
(***************************************************************************)
\* every enumeration of a set: the orders in which Python may iterate it
\* (the order of a set of str depends on the process's hash seed)
Orders(S) ==
    {o \in [1..Cardinality(S) -> S] : \A x \in S : \E i \in 1..Cardinality(S) : o[i] = x}

RangeOf(seq) == {seq[i] : i \in 1..Len(seq)}

\* for company in companies: if company.lower() in text.lower(): return company
\* inside try/except: a name that is no str raises, which is logged and turned
\* into None.  Returns the value and the detail of the swallowed failure.
RECURSIVE ScanNames(_, _)
ScanNames(order, text) ==
    IF order = <<>> THEN [value |-> None, raised |-> None]
    ELSE IF Head(order) = NonStr THEN [value |-> None, raised |-> "AttributeError"]
    ELSE IF Contains(Lower(text), Lower(Head(order))) THEN [value |-> Head(order), raised |-> None]
    ELSE ScanNames(Tail(order), text)

\* onb.py: the names of all documents of all configured collections;
\* doc["company"] raises KeyError for a document without the field, and the
\* find itself may fail; either is logged and turned into None.
AllDocs(db) == RangeOf(db[1]) \cup RangeOf(db[2])

extract_company_onb(text, db, order, findFails) ==
    IF findFails THEN [value |-> None, raised |-> "PyMongoError"]
    ELSE IF \E d \in AllDocs(db) : "company" \notin DOMAIN d
    THEN [value |-> None, raised |-> "KeyError"]
    ELSE ScanNames(order, text)

\* onb_corporate.py / onb_corporate2.py: the names of the records that have
\* the field
KnownNames(v, data) == {d[NameField(v)] : d \in {r \in RangeOf(data) : NameField(v) \in DOMAIN r}}

NamesOf(v, db) ==
    IF v = "onb"
    THEN {d["company"] : d \in {r \in AllDocs(db) : "company" \in DOMAIN r}}
    ELSE KnownNames(v, db[1])

\* order: the iteration order of the set of known names
extract_company(text, order) == ScanNames(order, text)

extract_legal_entity(text, order) == ScanNames(order, text)

(***************************************************************************)
(* Record lookup                                                           *)
(***************************************************************************)
\* onb.py: the query document built from the extracted fields, as the
\* predicate it denotes: wcis_id equality, and the anchored case-insensitive
\* regex ^<escaped company>$ on a string-valued company field.
MatchesQuery(d, id, name) ==
    /\ Truthy(id) => ("wcis_id" \in DOMAIN d /\ d["wcis_id"] = id)
    /\ Truthy(name) =>
          ("company" \in DOMAIN d /\ d["company"] # NonStr /\ Lower(d["company"]) = Lower(name))

\* collection.find_one(query): the first matching document in natural order
FindOne(coll, id, name) ==
    LET hits == {i \in 1..Len(coll) : MatchesQuery(coll[i], id, name)}
    IN IF hits = {} THEN [doc |-> NoDoc, raised |-> None]
       ELSE [doc |-> coll[Min(hits)], raised |-> None]

\* onb_corporate.py: next((doc for doc in client_data if (not wcis_id or
\* doc["wcis_id"] == wcis_id) and (not company or doc["company"].lower() ==
\* company.lower())), None); a subscript of a missing key raises KeyError.
RECURSIVE NextMatch(_, _, _)
NextMatch(data, id, name) ==
    IF data = <<>> THEN [doc |-> NoDoc, raised |-> None]
    ELSE LET d == Head(data) IN
         IF Truthy(id) /\ "wcis_id" \notin DOMAIN d THEN [doc |-> NoDoc, raised |-> "KeyError"]
         ELSE IF Truthy(id) /\ d["wcis_id"] # id THEN NextMatch(Tail(data), id, name)
         ELSE IF ~Truthy(name) THEN [doc |-> d, raised |-> None]
         ELSE IF "company" \notin DOMAIN d THEN [doc |-> NoDoc, raised |-> "KeyError"]
         ELSE IF d["company"] = NonStr THEN [doc |-> NoDoc, raised |-> "AttributeError"]
         ELSE IF Lower(d["company"]) = Lower(name) THEN [doc |-> d, raised |-> None]
         ELSE NextMatch(Tail(data), id, name)

\* ScanData with the filter of onb_corporate.py: (not wcis_id or ...) and
\* (not legal_entity or ...)
RECURSIVE ScanDataConj(_, _, _)
ScanDataConj(data, id, name) ==
    IF data = <<>> THEN [doc |-> NoDoc, raised |-> None]
    ELSE LET d == Head(data)
             stored == Get(d, "legalEntityName", "")
         IN IF Truthy(name) /\ stored = NonStr THEN [doc |-> NoDoc, raised |-> "AttributeError"]
            ELSE IF /\ (~Truthy(id) \/ Get(d, "wcisId", None) = id)
                    /\ (~Truthy(name) \/ Lower(stored) = Lower(name))
            THEN [doc |-> d, raised |-> None]
            ELSE ScanDataConj(Tail(data), id, name)

\* onb_corporate2.py: for d in onboarding_data: match_id = (wcis_id and
\* d.get("wcisId") == wcis_id); match_name = (legal_entity and
\* d.get("legalEntityName", "").lower() == legal_entity.lower());
\* if match_id or match_name: doc = d; break
RECURSIVE ScanData(_, _, _)
ScanData(data, id, name) ==
    IF data = <<>> THEN [doc |-> NoDoc, raised |-> None]
    ELSE LET d == Head(data)
             match_id == Truthy(id) /\ Get(d, "wcisId", None) = id
             stored == Get(d, "legalEntityName", "")
         IN IF Truthy(name) /\ stored = NonStr THEN [doc |-> NoDoc, raised |-> "AttributeError"]
            ELSE IF match_id \/ (Truthy(name) /\ Lower(stored) = Lower(name))
            THEN [doc |-> d, raised |-> None]
            ELSE ScanData(Tail(data), id, name)

\* the lookup of variant v; findFails: the store call of onb.py raises
Lookup(v, db, i, id, name, findFails) ==
    IF v = "onb"
    THEN IF findFails THEN [doc |-> NoDoc, raised |-> "PyMongoError"]
         ELSE FindOne(db[CollOf(i)], id, name)
    ELSE IF v = "onb_corporate" THEN NextMatch(db[1], id, name)
    ELSE ScanData(db[1], id, name)

(***************************************************************************)
(* Response renderers of onb.py and onb_corporate.py                       *)
(*                                                                         *)
(* The "steps" dict is the sequence of its <<step, status>> items in       *)
(* insertion order, each step name once.                                   *)
(***************************************************************************)
\* "steps": null in the stored document: doc.get("steps", {}) is None, and
\* None.items() / None.get raise AttributeError
NullSteps == << <<"<null>", "<null>">> >>

\* sep.join(parts)
RECURSIVE Join(_, _)
Join(parts, sep) ==
    IF parts = <<>> THEN ""
    ELSE IF Len(parts) = 1 THEN parts[1]
    ELSE parts[1] \o sep \o Join(Tail(parts), sep)

\* PendingOf comparing the status without regard to case
RECURSIVE PendingOfAnyCase(_)
PendingOfAnyCase(items) ==
    IF items = <<>> THEN <<>>
    ELSE IF Lower(Head(items)[2]) # "complete"
    THEN <<Head(items)[1]>> \o PendingOfAnyCase(Tail(items))
    ELSE PendingOfAnyCase(Tail(items))

\* [step for step, status in steps.items() if status != "complete"]
RECURSIVE PendingOf(_)
PendingOf(items) ==
    IF items = <<>> THEN <<>>
    ELSE IF Head(items)[2] # "complete" THEN <<Head(items)[1]>> \o PendingOf(Tail(items))
    ELSE PendingOf(Tail(items))

\* steps.get(step, default)
StepsGet(items, step, default) ==
    IF \E i \in 1..Len(items) : items[i][1] = step
    THEN items[CHOOSE i \in 1..Len(items) : items[i][1] = step][2]
    ELSE default

handle_onboarding_status(d) ==
    Fmt(Get(d, "company", "Unknown")) \o " onboarding is "
        \o Fmt(Get(d, "status", "unknown")) \o " complete."

handle_pending_steps(d) ==
    LET pending == PendingOf(Get(d, "steps", <<>>))
    IN "Pending steps for " \o Fmt(Get(d, "company", "Unknown")) \o ": "
           \o (IF pending # <<>> THEN Join(pending, ", ") ELSE "None")

\* KnownSteps scanned in the opposite order
KnownStepsReversed == <<"LegalEntity", "AccountOpening", "KYC">>

\* for step in ["KYC", "AccountOpening", "LegalEntity"]
KnownSteps == <<"KYC", "AccountOpening", "LegalEntity">>

RECURSIVE ScanSteps(_, _, _)
ScanSteps(steps, d, text) ==
    IF steps = <<>> THEN "Step not recognized."
    ELSE IF Contains(Lower(text), Lower(Head(steps)))
    THEN Head(steps) \o " status for " \o Fmt(Get(d, "company", "Unknown")) \o ": "
             \o StepsGet(Get(d, "steps", <<>>), Head(steps), "unknown")
    ELSE ScanSteps(Tail(steps), d, text)

handle_step_status(d, text) == ScanSteps(KnownSteps, d, text)

handle_who_is_customer(d, id) ==
    "WCIS ID " \o Fmt(id) \o " belongs to " \o Fmt(Get(d, "company", "Unknown"))

(***************************************************************************)
(* Response renderers of onb_corporate2.py (the replies are written in     *)
(* ASCII: the typographic apostrophes and emoji of the source are left     *)
(* out)                                                                    *)
(***************************************************************************)
handle_current_milestone(d) ==
    "Sure! Right now, " \o Fmt(Get(d, "legalEntityName", "Unknown")) \o " is at the '"
        \o Fmt(Get(d, "currentMilestone", "Not Available"))
        \o "' milestone. Need more info on what's next?"

handle_milestone_status(d) ==
    LET entity == Fmt(Get(d, "legalEntityName", "Unknown"))
        milestones == Get(d, "milestones", <<>>)
    IN IF milestones # <<>>
       THEN "Here's how " \o entity \o " has been progressing: " \o Join(milestones, ", ")
                \o ". Want to know more about any specific milestone?"
       ELSE "I couldn't find any milestones listed for " \o entity \o ". Want me to double-check?"

handle_accounts_milestone_status(d) ==
    LET entity == Fmt(Get(d, "legalEntityName", "Unknown"))
        milestones == Get(d, "accountMilestones", <<>>)
    IN IF milestones # <<>>
       THEN "As for account milestones, " \o entity \o " has the following updates: "
                \o Join(milestones, ", ") \o ". Shall I go deeper on any of these?"
       ELSE "Hmm, doesn't look like there are any account milestones available for "
                \o entity \o "."

handle_internal_contacts(d) ==
    LET entity == Fmt(Get(d, "legalEntityName", "Unknown"))
        contacts == Get(d, "internalContacts", <<>>)
    IN IF contacts # <<>>
       THEN "Here's who you can reach out to internally at " \o entity \o ": "
                \o Join(contacts, ", ") \o ". Want me to share their roles too?"
       ELSE "I couldn't spot any internal contacts for " \o entity
                \o ". Need me to poke around again?"

handle_external_contacts(d) ==
    LET entity == Fmt(Get(d, "legalEntityName", "Unknown"))
        contacts == Get(d, "externalContacts", <<>>)
    IN IF contacts # <<>>
       THEN "External folks connected with " \o entity \o " include: "
                \o Join(contacts, ", ") \o ". Let me know if you need contact details."
       ELSE "Looks like there are no external contacts listed for " \o entity
                \o ". Want me to recheck?"

handle_who_is_customer2(d, id) ==
    "Got it! WCIS ID " \o Fmt(id) \o " is linked to "
        \o Fmt(Get(d, "legalEntityName", "Unknown"))
        \o ". Anything else you'd like to know about them?"

\* the failure a renderer raises on document d, None when it raises none:
\* None.items() / None.get on a null "steps"; str.join on a list that holds
\* a value that is no str
RenderRaises(v, i, d, text) ==
    IF v = "onb_corporate2"
    THEN LET field == CASE i = "milestone_status" -> "milestones"
                        [] i = "accounts_milestone_status" -> "accountMilestones"
                        [] i = "internal_contacts" -> "internalContacts"
                        [] i = "external_contacts" -> "externalContacts"
                        [] OTHER -> "-"
         IN IF NonStr \in RangeOf(Get(d, field, <<>>)) THEN "TypeError" ELSE None
    ELSE IF Get(d, "steps", <<>>) # NullSteps THEN None
    ELSE IF i = "pending_steps" THEN "AttributeError"
    ELSE IF i = "step_status"
              /\ \E k \in 1..Len(KnownSteps) : Contains(Lower(text), Lower(KnownSteps[k]))
    THEN "AttributeError"
    ELSE None

\* intent_handlers[intent](...) with the arguments handle_query passes
Render(v, i, d, text, id) ==
    IF v = "onb_corporate2"
    THEN CASE i = "current_milestone" -> handle_current_milestone(d)
           [] i = "milestone_status" -> handle_milestone_status(d)
           [] i = "accounts_milestone_status" -> handle_accounts_milestone_status(d)
           [] i = "internal_contacts" -> handle_internal_contacts(d)
           [] i = "external_contacts" -> handle_external_contacts(d)
           [] i = "who_is_customer" -> handle_who_is_customer2(d, id)
    ELSE CASE i = "onboarding_status" -> handle_onboarding_status(d)
           [] i = "pending_steps" -> handle_pending_steps(d)
           [] i = "step_status" -> handle_step_status(d, text)
           [] i = "who_is_customer" -> handle_who_is_customer(d, id)

(***************************************************************************)
(* Small talk (onb_corporate2.py)                                          *)
(***************************************************************************)
\* small_talk_responses, in insertion order
small_talk_responses ==
    << <<"hi", "Hey there! How can I help you today?">>,
       <<"hello", "Hello! I'm ObaasChat. What can I do for you today?">>,
       <<"hey", "Hey hey! Need help with onboarding info?">>,
       <<"how are you", "I'm doing great, thanks for asking! How about you?">>,
       <<"what can you do", "I can help you with onboarding status, milestones, contact info, and more. Just ask away!">>,
       <<"thanks", "You're very welcome! Anything else on your mind?">>,
       <<"thank you", "Glad to help! Let me know if there's more I can assist with.">>,
       <<"who are you", "I'm ObaasChat, your onboarding assistant! Here to make life a little easier.">>,
       <<"what's up", "Not much, just chilling in the cloud. What can I do for you today?">>,
       <<"good morning", "Good morning! Hope your day's off to a smooth start">>,
       <<"good evening", "Good evening! How can I assist you before you wrap up your day?">>,
       <<"bye", "See you soon! Don't hesitate to come back if you need anything.">>,
       <<"good night", "Sweet dreams! Catch you later!">> >>

\* for phrase, response in small_talk_responses.items():
\*     if phrase in user_text: return {"response": response}
RECURSIVE ScanSmallTalk(_, _)
ScanSmallTalk(table, text) ==
    IF table = <<>> THEN None
    ELSE IF Contains(text, Head(table)[1]) THEN Head(table)[2]
    ELSE ScanSmallTalk(Tail(table), text)

\* small_talk answering only a message that is a phrase, not one that
\* contains it
small_talk_exact(text) ==
    IF \E k \in 1..Len(small_talk_responses) : small_talk_responses[k][1] = text
    THEN small_talk_responses[CHOOSE k \in 1..Len(small_talk_responses) :
                                 small_talk_responses[k][1] = text][2]
    ELSE None

small_talk(text) == ScanSmallTalk(small_talk_responses, text)

(***************************************************************************)
(* handle_query                                                            *)
(***************************************************************************)
\* NextStage with onb_corporate.py classifying first, like the other two
NextStageClassifyFirst(v, stage) ==
    CASE stage = "receive" -> "classify"
      [] stage = "classify" -> "extract"
      [] stage = "extract" -> "lookup"
      [] stage = "lookup" -> "dispatch"

\* the statement order of handle_query: onb_corporate.py extracts and looks up
\* before it classifies, the other two classify first
NextStage(v, stage) ==
    IF v = "onb_corporate"
    THEN CASE stage = "receive" -> "extract"
           [] stage = "extract" -> "lookup"
           [] stage = "lookup" -> "classify"
           [] stage = "classify" -> "dispatch"
    ELSE CASE stage = "receive" -> "classify"
           [] stage = "classify" -> "extract"
           [] stage = "extract" -> "lookup"
           [] stage = "lookup" -> "dispatch"

\* user_text = q.message (onb_corporate2.py: q.message.lower().strip())
Normalise(v, msg) == IF v = "onb_corporate2" THEN Strip(Lower(msg)) ELSE msg

\* the small-talk shortcut, present in onb_corporate2.py only
Shortcut(v, text) == IF v = "onb_corporate2" THEN small_talk(text) ELSE None

\* OnError returning the failure's detail with the apology
OnErrorLeaks(v, detail) == Apology(v) \o " (" \o detail \o ")"

\* except Exception as e: logging.error(...); return {"response": <apology>}
OnError(v, detail) == Apology(v)

\* if not doc: return {"response": <not found>}
OnMissing(v) == NotFoundMsg(v)

\* return {"response": r}
Respond(r) ==
    /\ response' = r
    /\ nresp' = nresp + 1
    /\ pc' = "done"

Fail(detail) ==
    /\ caught' = detail
    /\ Respond(OnError(variant, detail))

Receive ==
    /\ pc = "receive"
    /\ trace' = Append(trace, "receive")
    /\ user_text' = Normalise(variant, message)
    /\ LET reply == Shortcut(variant, Normalise(variant, message))
       IN IF reply # None THEN Respond(reply)
          ELSE /\ pc' = NextStage(variant, "receive")
               /\ UNCHANGED <<response, nresp>>
    /\ UNCHANGED <<variant, store, message, intent, wcis_id, company, doc, caught,
                   swallowed, handler>>

\* model.encode / cosine_similarity / argmax: some label of intent_labels;
\* the embedding call may raise
Classify ==
    /\ pc = "classify"
    /\ trace' = Append(trace, "classify")
    /\ \E i \in IntentLabels(variant), encodeFails \in BOOLEAN :
          IF encodeFails
          THEN Fail("RuntimeError") /\ UNCHANGED intent
          ELSE /\ intent' = i
               /\ pc' = NextStage(variant, "classify")
               /\ UNCHANGED <<response, nresp, caught>>
    /\ UNCHANGED <<variant, store, message, user_text, wcis_id, company, doc,
                   swallowed, handler>>

ExtractFields ==
    /\ pc = "extract"
    /\ trace' = Append(trace, "extract")
    /\ wcis_id' = extract_wcis_id(user_text)
    /\ \E order \in Orders(NamesOf(variant, store)),
          findFails \in IF variant = "onb" THEN BOOLEAN ELSE {FALSE} :
          LET r == IF variant = "onb"
                   THEN extract_company_onb(user_text, store, order, findFails)
                   ELSE IF variant = "onb_corporate"
                   THEN extract_company(user_text, order)
                   ELSE extract_legal_entity(user_text, order)
          IN /\ company' = r.value
             /\ swallowed' = r.raised
    /\ pc' = NextStage(variant, "extract")
    /\ UNCHANGED <<variant, store, message, user_text, intent, doc, response,
                   caught, handler, nresp>>

LookupRecord ==
    /\ pc = "lookup"
    /\ trace' = Append(trace, "lookup")
    /\ \E findFails \in IF variant = "onb" THEN BOOLEAN ELSE {FALSE} :
          LET r == Lookup(variant, store, intent, wcis_id, company, findFails)
          IN IF variant = "onb" /\ intent \notin IntentLabels(variant)
             THEN Respond("Intent not configured.") /\ UNCHANGED <<doc, caught>>
             ELSE IF r.raised # None
             THEN Fail(r.raised) /\ UNCHANGED doc
             ELSE IF Falsy(r.doc)
             THEN Respond(OnMissing(variant)) /\ UNCHANGED <<doc, caught>>
             ELSE /\ doc' = r.doc
                  /\ pc' = NextStage(variant, "lookup")
                  /\ UNCHANGED <<response, nresp, caught>>
    /\ UNCHANGED <<variant, store, message, user_text, intent, wcis_id, company,
                   swallowed, handler>>

Dispatch ==
    /\ pc = "dispatch"
    /\ trace' = Append(trace, "dispatch")
    /\ IF intent \in HandlerNames(variant)
       THEN /\ handler' = intent
            /\ LET raised == RenderRaises(variant, intent, doc, user_text)
               IN IF raised # None THEN Fail(raised)
                  ELSE /\ Respond(Render(variant, intent, doc, user_text, wcis_id))
                       /\ UNCHANGED caught
       ELSE /\ Respond(NoHandlerMsg(variant))
            /\ UNCHANGED <<handler, caught>>
    /\ UNCHANGED <<variant, store, message, user_text, intent, wcis_id, company,
                   doc, swallowed>>

(***************************************************************************)
(* Stored records and messages                                             *)
(***************************************************************************)
MaxStore == 2

OkSteps == << <<"KYC", "pending">>, <<"AccountOpening", "complete">>,
              <<"LegalEntity", "complete">> >>

\* the fields of a record besides its name and identifier; bad: fields a
\* renderer fails on
Extras(v, bad) ==
    IF v = "onb_corporate2"
    THEN ("currentMilestone" :> "KYC")
         @@ ("milestones" :> IF bad THEN <<"Docs", NonStr>> ELSE <<"Docs", "KYC">>)
         @@ ("internalContacts" :> IF bad THEN <<NonStr>> ELSE <<"Ann">>)
    ELSE ("status" :> "70%") @@ ("steps" :> IF bad THEN NullSteps ELSE OkSteps)

\* a record; name or id None: the record has no such field
Rec(v, name, id, bad) ==
    (IF name = None THEN <<>> ELSE (NameField(v) :> name))
    @@ (IF id = None THEN <<>> ELSE (IdField(v) :> id))
    @@ Extras(v, bad)

Corpus(v) ==
    { Rec(v, "Acme", "123456", FALSE),
      Rec(v, "Acme Co", "654321", FALSE),
      Rec(v, "ACME", None, FALSE),
      Rec(v, None, "123456", FALSE),
      Rec(v, "Acme", None, TRUE),
      Rec(v, NonStr, "654321", FALSE) }
    \cup (IF v = "onb_corporate" THEN {EmptyDoc} ELSE {})

RECURSIVE Stores(_, _)
Stores(v, n) ==
    IF n = 0 THEN {<<>>}
    ELSE LET S == Stores(v, n - 1) IN S \cup {Append(s, r) : s \in S, r \in Corpus(v)}

\* the second collection of onb.py's store: empty, or one record
Coll2(v) ==
    { <<>>, <<Rec(v, "Acme Co", "654321", FALSE)>>, <<Rec(v, None, "123456", FALSE)>> }

Messages ==
    { "How far is Acme with WCIS ID 123456?",
      "Acme Co 654321",
      "acme",
      "654321",
      "123456 Acme Co",
      "pending steps?",
      "Is KYC completed for acme 12345?",
      "999999",
      "Hi",
      "this is Acme 123456",
      "  THANK YOU  ",
      "bye, hey" }

Init ==
    /\ variant \in Variants
    /\ store \in {<<a, b>> : a \in Stores(variant, MaxStore),
                             b \in IF variant = "onb" THEN Coll2(variant) ELSE {<<>>}}
    /\ message \in Messages
    /\ pc = "receive"
    /\ user_text = None
    /\ intent = None
    /\ wcis_id = None
    /\ company = None
    /\ doc = NoDoc
    /\ response = None
    /\ trace = <<>>
    /\ caught = None
    /\ swallowed = None
    /\ handler = None
    /\ nresp = 0

Next == Receive \/ Classify \/ ExtractFields \/ LookupRecord \/ Dispatch

Spec == Init /\ [][Next]_vars

(***************************************************************************)
(* Identifier extraction on its own: every text of up to MaxTokens tokens  *)
(***************************************************************************)
MaxTokens == 4

\* digit runs shorter than, equal to and longer than the minimum, a digit to
\* lengthen a run, a letter, an underscore (both word characters) and two
\* characters that are no word characters
IdTokens == {"12345", "123456", "7654321", "9", "a", "_", " ", "-"}

RECURSIVE Texts(_)
Texts(n) ==
    IF n = 0 THEN {""}
    ELSE LET T == Texts(n - 1) IN T \cup {t \o k : t \in T, k \in IdTokens}

InitId ==
    /\ user_text \in Texts(MaxTokens)
    /\ message = user_text
    /\ variant = "onb_corporate"
    /\ store = <<<<>>, <<>>>>
    /\ pc = "id_start"
    /\ intent = None
    /\ wcis_id = None
    /\ company = None
    /\ doc = NoDoc
    /\ response = None
    /\ trace = <<>>
    /\ caught = None
    /\ swallowed = None
    /\ handler = None
    /\ nresp = 0

ExtractId ==
    /\ pc = "id_start"
    /\ wcis_id' = extract_wcis_id(user_text)
    /\ pc' = "id_done"
    /\ UNCHANGED <<variant, store, message, user_text, intent, company, doc,
                   response, trace, caught, swallowed, handler, nresp>>

NextId == ExtractId

SpecId == InitId /\ [][NextId]_vars

(***************************************************************************)
(* The step renderers on their own: every record whose "steps" mapping     *)
(* has up to MaxSteps entries                                              *)
(***************************************************************************)
MaxSteps == 3

StepNames == {"KYC", "AccountOpening", "LegalEntity", "Docs"}
Statuses == {"complete", "pending", "Complete"}

\* the mappings of up to n entries, each step name at most once
RECURSIVE StepMaps(_)
StepMaps(n) ==
    IF n = 0 THEN {<<>>}
    ELSE LET M == StepMaps(n - 1)
         IN M \cup {Append(m, <<k, st>>) :
                      m \in M, k \in StepNames, st \in Statuses}

UniqueKeys(m) == \A i, j \in 1..Len(m) : m[i][1] = m[j][1] => i = j

RenderDocs ==
    LET maps == {m \in StepMaps(MaxSteps) : UniqueKeys(m)}
    IN {("steps" :> m) : m \in maps}
       \cup {("company" :> "Apple") @@ ("steps" :> m) : m \in maps}
       \cup {("company" :> "Apple"), ("status" :> "70%")}

StepMessages ==
    { "Is KYC completed for Apple with WCIS ID 123456?",
      "legalentity and kyc status",
      "AccountOpening done?",
      "accountopening then LEGALENTITY",
      "Legal Entity status",
      "what about Docs",
      "skycap" }

InitRender ==
    /\ doc \in RenderDocs
    /\ message \in StepMessages
    /\ user_text = message
    /\ variant \in {"onb", "onb_corporate"}
    /\ store = <<<<>>, <<>>>>
    /\ pc = "render"
    /\ intent = None
    /\ wcis_id = None
    /\ company = None
    /\ response = None
    /\ trace = <<>>
    /\ caught = None
    /\ swallowed = None
    /\ handler = None
    /\ nresp = 0

RenderPending ==
    /\ pc = "render"
    /\ handler' = "pending_steps"
    /\ response' = handle_pending_steps(doc)
    /\ pc' = "rendered"
    /\ UNCHANGED <<variant, store, message, user_text, intent, wcis_id, company,
                   doc, trace, caught, swallowed, nresp>>

RenderStepStatus ==
    /\ pc = "render"
    /\ handler' = "step_status"
    /\ response' = handle_step_status(doc, user_text)
    /\ pc' = "rendered"
    /\ UNCHANGED <<variant, store, message, user_text, intent, wcis_id, company,
                   doc, trace, caught, swallowed, nresp>>

NextRender == RenderPending \/ RenderStepStatus

SpecRender == InitRender /\ [][NextRender]_vars

(***************************************************************************)
(* Properties                                                              *)
(***************************************************************************)
\* failures of the environment (the embedding model, the document store), as
\* opposed to failures the stored data causes
EnvFailures == {"RuntimeError", "PyMongoError"}

Performed(stage) == stage \in RangeOf(trace)

\* the position of a stage in the trace, 0 when it has not run
Pos(stage) ==
    IF Performed(stage) THEN CHOOSE i \in 1..Len(trace) : trace[i] = stage ELSE 0

\* the records the lookup of the request reads
LookedUp == IF variant = "onb" THEN store[CollOf(intent)] ELSE store[1]

\* a record satisfies the filter of section 4.3: the identifier, if one was
\* extracted, equals the record's; and the entity name, if one was extracted,
\* equals the record's up to case
SatisfiesFilter(d, id, name) ==
    /\ Truthy(id) => (IdField(variant) \in DOMAIN d /\ d[IdField(variant)] = id)
    /\ Truthy(name) =>
          /\ NameField(variant) \in DOMAIN d
          /\ d[NameField(variant)] # NonStr
          /\ Lower(d[NameField(variant)]) = Lower(name)

\* C1: after the lookup of a request whose environment did not fail, if no
\* record of the store satisfies the filter derived from the extracted
\* identifier and entity name, the response is the variant's "not found"
\* message and no intent handler was invoked.
C1_NotFoundWhenNoMatch ==
    ( /\ Performed("lookup")
      /\ caught \notin EnvFailures
      /\ \A d \in RangeOf(LookedUp) : ~SatisfiesFilter(d, wcis_id, company) )
    => (response = NotFoundMsg(variant) /\ handler = None)

\* C2: whenever the lookup returns a record, the record's identifier equals
\* the extracted identifier if one was extracted AND its entity name equals
\* the extracted name up to case if one was extracted.
C2_LookupIsConjunction ==
    doc # NoDoc => SatisfiesFilter(doc, wcis_id, company)

\* C3 as stated: in every variant, when neither an identifier nor an entity
\* name was extracted and the store is not empty, the lookup returns the first
\* record of the store and the response is not the "not found" message.
C3_EmptyFilterEveryVariant ==
    ( /\ Performed("lookup")
      /\ caught # "PyMongoError"
      /\ ~Truthy(wcis_id) /\ ~Truthy(company)
      /\ LookedUp # <<>> )
    => (doc = LookedUp[1] /\ response # NotFoundMsg(variant))

\* C3 amended: under the same precondition, onb.py and onb_corporate.py take
\* the first record of the store and, unless it is an empty object, dispatch
\* on it (the response, when no failure was caught, is the renderer's output
\* for that record or the no-handler message); onb_corporate2.py matches no
\* record and answers with its "not found" message, as onb_corporate.py does
\* for a first record that is an empty object.
C3_EmptyFilter ==
    ( /\ Performed("lookup")
      /\ caught # "PyMongoError"
      /\ ~Truthy(wcis_id) /\ ~Truthy(company)
      /\ LookedUp # <<>> )
    => IF variant = "onb_corporate2"
       THEN doc = NoDoc /\ pc = "done" /\ response = NotFoundMsg(variant) /\ handler = None
       ELSE IF DOMAIN LookedUp[1] = {}
       THEN doc = NoDoc /\ pc = "done" /\ response = NotFoundMsg(variant) /\ handler = None
       ELSE /\ doc = LookedUp[1]
            /\ response # NotFoundMsg(variant)
            /\ (pc = "done" /\ caught = None) =>
                  response = IF intent \in HandlerNames(variant)
                             THEN Render(variant, intent, LookedUp[1], user_text, wcis_id)
                             ELSE NoHandlerMsg(variant)

C3_Witness ==
    /\ variant = "onb_corporate"
    /\ pc = "done"
    /\ ~Truthy(wcis_id) /\ ~Truthy(company)
    /\ Len(store[1]) = 2 /\ store[1][1] # store[1][2]
    /\ doc = store[1][1]
    /\ handler = "onboarding_status"
    /\ response = "Acme Co onboarding is 70% complete."

\* the indices of the small-talk phrases that occur in the lowercased, trimmed
\* message
PhrasesIn(msg) ==
    {k \in 1..Len(small_talk_responses) :
        Contains(Strip(Lower(msg)), small_talk_responses[k][1])}

\* C4: in onb_corporate2, once the message was received: if the lowercased,
\* trimmed message contains a small-talk phrase, the request is over, the
\* response is the reply of the first such phrase in table order, and no
\* classification, extraction or lookup ran; if it contains none, no response
\* was given on receipt and classification is the next stage.
C4_SmallTalkShortcut ==
    (variant = "onb_corporate2" /\ Performed("receive")) =>
        IF PhrasesIn(message) # {}
        THEN /\ pc = "done"
             /\ nresp = 1
             /\ response = small_talk_responses[Min(PhrasesIn(message))][2]
             /\ trace = <<"receive">>
             /\ intent = None /\ wcis_id = None /\ company = None /\ doc = NoDoc
        ELSE /\ Len(trace) = 1 => (pc = "classify" /\ nresp = 0 /\ response = None)
             /\ Len(trace) > 1 => trace[2] = "classify"

C4_Witness ==
    /\ variant = "onb_corporate2"
    /\ pc = "done"
    /\ Cardinality(PhrasesIn(message)) = 2
    /\ message = "bye, hey"
    /\ response = "Hey hey! Need help with onboarding info?"

\* C5 as stated: a failure raised at any step, field extraction included, ends
\* the request with exactly one response, the variant's apology.
C5_EveryFailureApologises ==
    (pc = "done" /\ (caught # None \/ swallowed # None)) =>
        (nresp = 1 /\ response = Apology(variant))

\* C5 amended: a failure that reaches handle_query's except clause (from
\* classification, the lookup or a renderer) ends the request with exactly one
\* response, which is the variant's apology and does not contain the failure's
\* detail; every finished request has exactly one response; a failure inside
\* the entity extractor is caught by the extractor itself, which returns None,
\* and the request goes on to its next stage without a response.
C5_CaughtFailureApologises ==
    /\ caught # None =>
          /\ pc = "done"
          /\ nresp = 1
          /\ response = Apology(variant)
          /\ ~Contains(response, caught)
    /\ pc = "done" => nresp = 1
    /\ pc # "done" => (nresp = 0 /\ response = None)
    /\ swallowed # None => company = None
    /\ (swallowed # None /\ trace[Len(trace)] = "extract") => pc = "lookup"

C5_Witness ==
    /\ pc = "done"
    /\ caught = "AttributeError"
    /\ handler = "pending_steps"
    /\ response = Apology(variant)
    /\ nresp = 1

\* C6: once the fields were extracted (and the store did not fail), for every
\* known entity name N that the message contains in any casing, the extracted
\* entity name is N.
C6_ExtractionReturnsContainedName ==
    (Performed("extract") /\ swallowed # "PyMongoError") =>
        \A N \in NamesOf(variant, store) \ {NonStr} :
            Contains(Lower(message), Lower(N)) => company = N

\* C10 as stated: in every variant classification precedes field extraction
\* and lookup, a "not found" response comes after classification, and no stage
\* runs twice.
C10_ClassifyFirstEveryVariant ==
    /\ Performed("extract") => (Performed("classify") /\ Pos("classify") < Pos("extract"))
    /\ Performed("lookup") => (Performed("classify") /\ Pos("classify") < Pos("lookup"))
    /\ response = NotFoundMsg(variant) => Performed("classify")
    /\ \A i, j \in 1..Len(trace) : trace[i] = trace[j] => i = j

IsPrefix(t, full) == Len(t) <= Len(full) /\ \A i \in 1..Len(t) : t[i] = full[i]

\* C10 amended: onb.py and onb_corporate2.py run receive, classify, extract,
\* lookup, dispatch in that order, so their "not found" response comes after
\* classification; onb_corporate.py runs receive, extract, lookup, classify,
\* dispatch, so its "not found" response comes before any classification; in
\* every variant the stages run form a prefix of that order: none is repeated
\* or revisited.
C10_StageOrder ==
    IF variant = "onb_corporate"
    THEN /\ IsPrefix(trace, <<"receive", "extract", "lookup", "classify", "dispatch">>)
         /\ response = NotFoundMsg(variant) => ~Performed("classify")
    ELSE /\ IsPrefix(trace, <<"receive", "classify", "extract", "lookup", "dispatch">>)
         /\ response = NotFoundMsg(variant) => Performed("classify")

C10_Witness ==
    /\ variant = "onb_corporate"
    /\ pc = "done"
    /\ response = NotFoundMsg(variant)
    /\ trace = <<"receive", "extract", "lookup">>
    /\ intent = None

\* the digit runs of the text that are 6 or more digits long and bounded on
\* both sides by the start or end of the text or a character that is no word
\* character, as <<first, last>> index pairs
BoundedRuns(text) ==
    {r \in (1..Len(text)) \X (1..Len(text)) :
        /\ r[2] - r[1] + 1 >= 6
        /\ \A k \in r[1]..r[2] : CharAt(text, k) \in Digits
        /\ r[1] = 1 \/ ~IsWord(CharAt(text, r[1] - 1))
        /\ r[2] = Len(text) \/ ~IsWord(CharAt(text, r[2] + 1))}

\* some 6 consecutive characters of the text are digits
HasLongRun(text) ==
    \E i \in 1..(Len(text) - 5) : \A k \in i..(i + 5) : CharAt(text, k) \in Digits

\* C7: identifier extraction returns the leftmost run of 6 or more digits
\* bounded on both sides by a word boundary, whole, and None when there is no
\* such run; a text with no run of 6 digits yields None.
C7_LeftmostBoundedRun ==
    pc = "id_done" =>
        /\ IF BoundedRuns(user_text) = {}
           THEN wcis_id = None
           ELSE \E r \in BoundedRuns(user_text) :
                   /\ \A q \in BoundedRuns(user_text) : r[1] <= q[1]
                   /\ wcis_id = SubSeq(user_text, r[1], r[2])
        /\ ~HasLongRun(user_text) => wcis_id = None

C7_Witness ==
    /\ pc = "id_done"
    /\ user_text = "_123456 7654321"
    /\ HasLongRun(SubSeq(user_text, 1, 7))
    /\ Cardinality(BoundedRuns(user_text)) = 1
    /\ wcis_id = "7654321"

\* the ", "-joined names, built from the last name backwards
RECURSIVE JoinFirst(_, _)
JoinFirst(names, n) ==
    IF n = 0 THEN ""
    ELSE IF n = 1 THEN names[1]
    ELSE JoinFirst(names, n - 1) \o ", " \o names[n]

NotComplete(item) == item[2] # "complete"

\* C8: handle_pending_steps lists exactly the step names whose status is not
\* the literal "complete", in mapping order, joined by ", "; when there is
\* none (every status is "complete", or the mapping is empty or missing) the
\* response holds "None" in place of the list, never an empty list.
C8_PendingSteps ==
    (pc = "rendered" /\ handler = "pending_steps") =>
        LET items == IF "steps" \in DOMAIN doc THEN doc["steps"] ELSE <<>>
            left == SelectSeq(items, NotComplete)
            names == [i \in 1..Len(left) |-> left[i][1]]
            head == "Pending steps for "
                       \o (IF "company" \in DOMAIN doc THEN doc["company"] ELSE "Unknown")
                       \o ": "
        IN /\ response = head \o (IF Len(left) = 0 THEN "None"
                                  ELSE JoinFirst(names, Len(names)))
           /\ Len(response) > Len(head)

C8_Witness ==
    /\ pc = "rendered"
    /\ handler = "pending_steps"
    /\ doc = ("company" :> "Apple")
             @@ ("steps" :> << <<"LegalEntity", "Complete">>, <<"Docs", "complete">>,
                              <<"KYC", "pending">> >>)
    /\ response = "Pending steps for Apple: LegalEntity, KYC"

C8_WitnessNone ==
    /\ pc = "rendered"
    /\ handler = "pending_steps"
    /\ "steps" \in DOMAIN doc /\ Len(doc["steps"]) = 2
    /\ response = "Pending steps for Unknown: None"

\* C9: handle_step_status reports the record's status ("unknown" when it has
\* none) of the first of KYC, AccountOpening, LegalEntity that occurs in the
\* message as a case-insensitive substring, and answers "Step not
\* recognized." exactly when none of the three occurs.
C9_StepStatus ==
    (pc = "rendered" /\ handler = "step_status") =>
        LET fixed == <<"KYC", "AccountOpening", "LegalEntity">>
            present == {k \in 1..3 : Contains(Lower(message), Lower(fixed[k]))}
            items == IF "steps" \in DOMAIN doc THEN doc["steps"] ELSE <<>>
            name == IF "company" \in DOMAIN doc THEN doc["company"] ELSE "Unknown"
        IN IF present = {}
           THEN response = "Step not recognized."
           ELSE LET step == fixed[Min(present)]
                    at == {i \in 1..Len(items) : items[i][1] = step}
                IN /\ response # "Step not recognized."
                   /\ response = step \o " status for " \o name \o ": "
                         \o (IF at = {} THEN "unknown" ELSE items[Min(at)][2])

C9_Witness ==
    /\ pc = "rendered"
    /\ handler = "step_status"
    /\ message = "legalentity and kyc status"
    /\ doc = ("company" :> "Apple")
             @@ ("steps" :> << <<"LegalEntity", "complete">>, <<"KYC", "pending">> >>)
    /\ response = "KYC status for Apple: pending"

====
